---- MODULE Spec2Model ----
\* A model of db/sql/csv_to_insert.py: csv_to_sql_insert and its interactive
\* entry point. Text is modelled as a sequence of tokens (short strings), a
\* file as a sequence of lines; the delimiter ';' is a token of its own.
EXTENDS Integers, Sequences, FiniteSets, TLC

VARIABLES inFile, outFile, pc, open, pos, columns, rows, buf, exc, console, runs, entry

vars == <<inFile, outFile, pc, open, pos, columns, rows, buf, exc, console, runs, entry>>

\* ---------------------------------------------------------------- bounds
\* data rows and columns of the input files of Spec
MaxRows == 2
MaxCols == 2
\* calls in sequence, and data rows of the input files, of SpecTwice
MaxRuns == 2
TwiceRows == 1
\* tokens per raw value in the input files of SpecFormat
MaxValLen == 3

\* ---------------------------------------------------------------- inputs
csv_file_path == "in.csv"
output_file_path == "out.sql"
table_name == "orders"

\* column names and raw field values the input files are built from
HeaderNames == {<<"status">>, <<"a">>}
FieldValues == {<<>>, <<"a", "'">>}
OldText == <<"old">>

SeqsUpTo(S, n) == UNION {[1..k -> S] : k \in 0..n}
SeqsFromTo(S, m, n) == UNION {[1..k -> S] : k \in m..n}

\* ---------------------------------------------------------------- helpers
\* sep.join(parts) on token sequences
RECURSIVE Join(_, _)
Join(sep, parts) ==
    IF parts = <<>> THEN <<>>
    ELSE IF Len(parts) = 1 THEN parts[1]
    ELSE parts[1] \o sep \o Join(sep, Tail(parts))

\* the pieces of text between the occurrences of the token d
RECURSIVE SplitOn(_, _)
SplitOn(text, d) ==
    IF \A i \in 1..Len(text) : text[i] # d THEN <<text>>
    ELSE LET i == CHOOSE j \in 1..Len(text) :
                     text[j] = d /\ \A k \in 1..(j-1) : text[k] # d
         IN <<SubSeq(text, 1, i-1)>> \o SplitOn(SubSeq(text, i+1, Len(text)), d)

\* csv.reader(delimiter=';') on one line: a blank line is the empty record
ParseLine(line) == IF line = <<>> THEN <<>> ELSE SplitOn(line, ";")

\* the input files: a header line (possibly blank) and data lines, or nothing
HeaderLines(c) == {Join(<<";">>, h) : h \in SeqsUpTo(HeaderNames, c)}
DataLines(c) == {Join(<<";">>, f) : f \in SeqsFromTo(FieldValues, 1, c)}
Files(r, c) ==
    {<<>>} \cup {<<h>> \o d : h \in HeaderLines(c), d \in SeqsUpTo(DataLines(c), r)}
InputFiles == Files(MaxRows, MaxCols)
TwiceFiles == Files(TwiceRows, MaxCols)

\* two distinct columns and one data row of raw values over FormatTokens
FormatNames == {<<"status">>, <<"rate">>, <<"a">>}
FormatTokens == {"a", "'"}
FormatFiles ==
    {<<>>} \cup
    {<<Join(<<";">>, c), Join(<<";">>, v)>> :
        c \in {h \in [1..2 -> FormatNames] : h[1] # h[2]},
        v \in [1..2 -> SeqsUpTo(FormatTokens, MaxValLen)]}

\* the value a DictReader row holds under a key
None == [some |-> FALSE, v |-> <<>>]
Some(v) == [some |-> TRUE, v |-> v]

\* DictReader.__next__: dict(zip(fieldnames, row)), restval None for the
\* header columns past the end of a short row; a later duplicate key wins
RowValue(cols, fields, col) ==
    LET i == CHOOSE j \in 1..Len(cols) :
                 cols[j] = col /\ \A k \in (j+1)..Len(cols) : cols[k] # col
    IN IF i <= Len(fields) THEN Some(fields[i]) ELSE None

\* index of the next non-blank line after position p, 0 at end of file
NextRecord(lines, p) ==
    IF \E i \in (p+1)..Len(lines) : lines[i] # <<>>
    THEN CHOOSE i \in (p+1)..Len(lines) :
             lines[i] # <<>> /\ \A k \in (p+1)..(i-1) : lines[k] = <<>>
    ELSE 0

NumericColumns == {<<"status">>, <<"rate">>}

\* a replace that leaves embedded quotes single
Replace_NoDoubling(v) == v

\* value.replace("'", "''")
RECURSIVE Replace(_)
Replace(v) ==
    IF v = <<>> THEN <<>>
    ELSE IF Head(v) = "'" THEN <<"'", "'">> \o Replace(Tail(v))
    ELSE <<Head(v)>> \o Replace(Tail(v))

\* str(value)
Str(value) == IF value.some THEN value.v ELSE <<"None">>

\* lines 82-87: the text appended for one column, or the exception raised
FormatValue(col, value) ==
    IF col \in NumericColumns THEN [ok |-> TRUE, s |-> Str(value)]
    ELSE IF ~value.some THEN [ok |-> FALSE, s |-> <<>>]
    ELSE [ok |-> TRUE, s |-> <<"'">> \o Replace(value.v) \o <<"'">>]

\* the values of a row taken in reverse header order
RowValues_Reversed(cols, fields) ==
    [i \in 1..Len(cols) |->
        FormatValue(cols[Len(cols) + 1 - i],
                    RowValue(cols, fields, cols[Len(cols) + 1 - i]))]

\* lines 80-89 for one row: values in header order, then the tuple text
RowValues(cols, fields) ==
    [i \in 1..Len(cols) |-> FormatValue(cols[i], RowValue(cols, fields, cols[i]))]

RowText(cols, fields) ==
    LET vals == RowValues(cols, fields)
    IN <<"(">> \o Join(<<", ">>, [i \in 1..Len(cols) |-> vals[i].s]) \o <<")">>

\* line 76
HeaderText(cols) ==
    <<"INSERT INTO ", table_name, " (">> \o Join(<<", ">>, cols) \o <<") VALUES\n">>

Success == [kind |-> "Success", arg |-> output_file_path]
FileNotFoundMsg == [kind |-> "FileNotFound", arg |-> csv_file_path]
InputNotFoundMsg == [kind |-> "InputNotFound", arg |-> csv_file_path]
ErrorMsg(e) == [kind |-> "Error", arg |-> e]

\* ---------------------------------------------------------------- Init
InitWith(files) ==
    /\ inFile \in [kind : {"file"}, lines : files]
                    \cup [kind : {"absent", "locked"}, lines : {<<>>}]
    /\ outFile \in [kind : {"file"}, text : {OldText}]
                    \cup [kind : {"absent", "nodir", "locked"}, text : {<<>>}]
    /\ pc = "idle"
    /\ open = {}
    /\ pos = 0
    /\ columns = <<>>
    /\ rows = <<>>
    /\ buf = <<>>
    /\ exc = "None"
    /\ console = <<>>
    /\ runs = 0
    /\ entry = [out |-> outFile, printed |-> 0]

Init == InitWith(InputFiles)
InitTwice == InitWith(TwiceFiles)
InitFormat == InitWith(FormatFiles)

\* ---------------------------------------------------------------- actions
\* entering csv_to_sql_insert (line 65): fresh locals
Enter ==
    /\ runs' = runs + 1
    /\ pc' = "open_in"
    /\ entry' = [out |-> outFile, printed |-> Len(console)]
    /\ pos' = 0 /\ columns' = <<>> /\ rows' = <<>> /\ buf' = <<>> /\ exc' = "None"
    /\ UNCHANGED <<inFile, outFile, open, console>>

\* a direct call of csv_to_sql_insert
Call == pc = "idle" /\ runs = 0 /\ Enter

\* the same call once more, after the previous one returned
CallAgain == pc = "idle" /\ runs \in 1..(MaxRuns - 1) /\ Enter

\* lines 101-109: the entry point checks os.path.exists first
Main ==
    /\ pc = "idle"
    /\ runs = 0
    /\ IF inFile.kind = "absent"
       THEN /\ runs' = runs + 1
            /\ entry' = [out |-> outFile, printed |-> Len(console)]
            /\ console' = Append(console, InputNotFoundMsg)
            /\ UNCHANGED <<inFile, outFile, pc, open, pos, columns, rows, buf, exc>>
       ELSE Enter

\* the two opens in the other order: the output is created or truncated
\* before the input is looked at
OpenInput_OutputFirst ==
    /\ pc = "open_in"
    /\ outFile' = IF outFile.kind \in {"absent", "file"}
                  THEN [kind |-> "file", text |-> <<>>]
                  ELSE outFile
    /\ IF inFile.kind = "file"
       THEN /\ open' = open \cup {"csv_file"}
            /\ pc' = "open_out"
            /\ UNCHANGED exc
       ELSE /\ exc' = IF inFile.kind = "absent" THEN "FileNotFoundError" ELSE "PermissionError"
            /\ pc' = "except"
            /\ UNCHANGED open
    /\ UNCHANGED <<inFile, pos, columns, rows, buf, console, runs, entry>>

\* line 67: open(csv_file_path, 'r')
OpenInput ==
    /\ pc = "open_in"
    /\ IF inFile.kind = "file"
       THEN /\ open' = open \cup {"csv_file"}
            /\ pc' = "open_out"
            /\ UNCHANGED exc
       ELSE /\ exc' = IF inFile.kind = "absent" THEN "FileNotFoundError" ELSE "PermissionError"
            /\ pc' = "except"
            /\ UNCHANGED open
    /\ UNCHANGED <<inFile, outFile, pos, columns, rows, buf, console, runs, entry>>

\* the output opened in append mode: existing text is kept
OpenOutput_Append ==
    /\ pc = "open_out"
    /\ IF outFile.kind \in {"absent", "file"}
       THEN /\ outFile' = [kind |-> "file", text |-> outFile.text]
            /\ open' = open \cup {"sql_file"}
            /\ pc' = "header"
            /\ UNCHANGED exc
       ELSE /\ exc' = IF outFile.kind = "nodir" THEN "FileNotFoundError" ELSE "PermissionError"
            /\ open' = open \ {"csv_file"}
            /\ pc' = "except"
            /\ UNCHANGED outFile
    /\ UNCHANGED <<inFile, pos, columns, rows, buf, console, runs, entry>>

\* a failed open of the output that leaves csv_file open
OpenOutput_Leak ==
    /\ pc = "open_out"
    /\ IF outFile.kind \in {"absent", "file"}
       THEN /\ outFile' = [kind |-> "file", text |-> <<>>]
            /\ open' = open \cup {"sql_file"}
            /\ pc' = "header"
            /\ UNCHANGED exc
       ELSE /\ exc' = IF outFile.kind = "nodir" THEN "FileNotFoundError" ELSE "PermissionError"
            /\ pc' = "except"
            /\ UNCHANGED <<outFile, open>>
    /\ UNCHANGED <<inFile, pos, columns, rows, buf, console, runs, entry>>

\* line 68: open(output_file_path, 'w') creates or truncates; on failure the
\* with statement closes csv_file while the exception propagates
OpenOutput ==
    /\ pc = "open_out"
    /\ IF outFile.kind \in {"absent", "file"}
       THEN /\ outFile' = [kind |-> "file", text |-> <<>>]
            /\ open' = open \cup {"sql_file"}
            /\ pc' = "header"
            /\ UNCHANGED exc
       ELSE /\ exc' = IF outFile.kind = "nodir" THEN "FileNotFoundError" ELSE "PermissionError"
            /\ open' = open \ {"csv_file"}
            /\ pc' = "except"
            /\ UNCHANGED outFile
    /\ UNCHANGED <<inFile, pos, columns, rows, buf, console, runs, entry>>

\* lines 70-76: fieldnames is the first record (None for an empty file, []
\* for a blank first line); an empty header raises, otherwise the INSERT
\* line goes to sql_file's buffer
ReadHeader ==
    /\ pc = "header"
    /\ LET cols == IF inFile.lines = <<>> THEN <<>> ELSE ParseLine(inFile.lines[1])
       IN /\ columns' = cols
          /\ pos' = IF inFile.lines = <<>> THEN 0 ELSE 1
          /\ IF cols = <<>>
             THEN /\ exc' = "ValueError"
                  /\ pc' = "exit"
                  /\ UNCHANGED buf
             ELSE /\ buf' = buf \o HeaderText(cols)
                  /\ pc' = "rows"
                  /\ UNCHANGED exc
    /\ UNCHANGED <<inFile, outFile, open, rows, console, runs, entry>>

\* lines 79-89: one iteration of the row loop
ProcessRow ==
    /\ pc = "rows"
    /\ NextRecord(inFile.lines, pos) # 0
    /\ LET n == NextRecord(inFile.lines, pos)
           fields == ParseLine(inFile.lines[n])
           vals == RowValues(columns, fields)
       IN /\ pos' = n
          /\ IF \E i \in 1..Len(columns) : ~vals[i].ok
             THEN /\ exc' = "AttributeError"
                  /\ pc' = "exit"
                  /\ UNCHANGED rows
             ELSE /\ rows' = Append(rows, RowText(columns, fields))
                  /\ UNCHANGED <<exc, pc>>
    /\ UNCHANGED <<inFile, outFile, open, columns, buf, console, runs, entry>>

\* the join that leaves out the last row
WriteRows_DropLast ==
    /\ pc = "rows"
    /\ NextRecord(inFile.lines, pos) = 0
    /\ buf' = buf \o Join(<<",\n">>, SubSeq(rows, 1, Len(rows) - 1)) \o <<";">>
    /\ pc' = "exit"
    /\ UNCHANGED <<inFile, outFile, open, pos, columns, rows, exc, console, runs, entry>>

\* lines 91-92, once the reader is exhausted
WriteRows ==
    /\ pc = "rows"
    /\ NextRecord(inFile.lines, pos) = 0
    /\ buf' = buf \o Join(<<",\n">>, rows) \o <<";">>
    /\ pc' = "exit"
    /\ UNCHANGED <<inFile, outFile, open, pos, columns, rows, exc, console, runs, entry>>

\* the success message reached after an exception too
ExitWith_AlwaysPrint ==
    /\ pc = "exit"
    /\ outFile' = [outFile EXCEPT !.text = outFile.text \o buf]
    /\ buf' = <<>>
    /\ open' = {}
    /\ pc' = "print"
    /\ UNCHANGED <<inFile, pos, columns, rows, exc, console, runs, entry>>

\* leaving the with block (normally or by exception): sql_file is flushed
\* and closed, then csv_file is closed
ExitWith ==
    /\ pc = "exit"
    /\ outFile' = [outFile EXCEPT !.text = outFile.text \o buf]
    /\ buf' = <<>>
    /\ open' = {}
    /\ pc' = IF exc = "None" THEN "print" ELSE "except"
    /\ UNCHANGED <<inFile, pos, columns, rows, exc, console, runs, entry>>

\* the flush at close fails (device full, I/O error): nothing reaches the
\* file, both handles are still released, OSError propagates
ExitWithFail ==
    /\ pc = "exit"
    /\ buf # <<>>
    /\ buf' = <<>>
    /\ open' = {}
    /\ exc' = "OSError"
    /\ pc' = "except"
    /\ UNCHANGED <<inFile, outFile, pos, columns, rows, console, runs, entry>>

\* line 94
PrintSuccess ==
    /\ pc = "print"
    /\ console' = Append(console, Success)
    /\ pc' = "idle"
    /\ UNCHANGED <<inFile, outFile, open, pos, columns, rows, buf, exc, runs, entry>>

\* lines 96-97
ExceptFileNotFound ==
    /\ pc = "except"
    /\ exc = "FileNotFoundError"
    /\ console' = Append(console, FileNotFoundMsg)
    /\ pc' = "idle"
    /\ UNCHANGED <<inFile, outFile, open, pos, columns, rows, buf, exc, runs, entry>>

\* lines 98-99
ExceptException ==
    /\ pc = "except"
    /\ exc # "FileNotFoundError"
    /\ console' = Append(console, ErrorMsg(exc))
    /\ pc' = "idle"
    /\ UNCHANGED <<inFile, outFile, open, pos, columns, rows, buf, exc, runs, entry>>

Next ==
    \/ Call
    \/ Main
    \/ OpenInput
    \/ OpenOutput
    \/ ReadHeader
    \/ ProcessRow
    \/ WriteRows
    \/ ExitWith
    \/ ExitWithFail
    \/ PrintSuccess
    \/ ExceptFileNotFound
    \/ ExceptException

\* one invocation, from every input file and output path state
Spec == Init /\ [][Next]_vars

\* one invocation on two-column files with longer raw values
SpecFormat == InitFormat /\ [][Next]_vars

\* up to MaxRuns invocations in sequence with the same arguments
NextTwice == Next \/ CallAgain
SpecTwice == InitTwice /\ [][NextTwice]_vars

\* ---------------------------------------------------------------- reading the state
\* the current call has returned to its caller
Returned == pc = "idle" /\ runs > 0

\* what the current call printed
Printed == SubSeq(console, entry.printed + 1, Len(console))

Succeeded == Returned /\ Printed = <<Success>>

\* the output path could be opened for writing when the call began
Openable == entry.out.kind \in {"absent", "file"}

\* the input as a reader of ';'-separated text sees it
Header == ParseLine(inFile.lines[1])

RECURSIVE NonBlank(_)
NonBlank(ls) ==
    IF ls = <<>> THEN <<>>
    ELSE IF Head(ls) = <<>> THEN NonBlank(Tail(ls))
    ELSE <<ParseLine(Head(ls))>> \o NonBlank(Tail(ls))

DataRecords == NonBlank(Tail(inFile.lines))

HasHeader == inFile.kind = "file" /\ inFile.lines # <<>> /\ Header # <<>>

WellFormed ==
    /\ HasHeader
    /\ \A i \in 2..Len(inFile.lines) : Len(ParseLine(inFile.lines[i])) = Len(Header)

\* the written statement, taken apart at its punctuation tokens
IndexOf(text, t) == CHOOSE i \in 1..Len(text) : text[i] = t /\ \A k \in 1..(i-1) : text[k] # t
OutColumns(text) ==
    SplitOn(SubSeq(text, IndexOf(text, " (") + 1, IndexOf(text, ") VALUES\n") - 1), ", ")
OutBody(text) == SubSeq(text, IndexOf(text, ") VALUES\n") + 1, Len(text) - 1)
OutTuples(text) == IF OutBody(text) = <<>> THEN <<>> ELSE SplitOn(OutBody(text), ",\n")
TupleValues(t) == SplitOn(SubSeq(t, 2, Len(t) - 1), ", ")
TupleCount(text) == Cardinality({i \in 1..Len(text) : text[i] = "("})
Complete(text) == text # <<>> /\ text[1] = "INSERT INTO " /\ text[Len(text)] = ";"

CountQ(s) == Cardinality({i \in 1..Len(s) : s[i] = "'"})

\* each pair of quotes read back as one quote; a lone quote reads as "?"
RECURSIVE Undouble(_)
Undouble(s) ==
    IF s = <<>> THEN <<>>
    ELSE IF s[1] # "'" THEN <<s[1]>> \o Undouble(Tail(s))
    ELSE IF Len(s) >= 2 /\ s[2] = "'" THEN <<"'">> \o Undouble(SubSeq(s, 3, Len(s)))
    ELSE <<"?">>

\* ---------------------------------------------------------------- claims

\* C1: given an empty (header-less) input file, the call reports the
\* malformed input and leaves the file at the output path as it was before
\* the call (not created, content unchanged).
C1_EmptyInputLeavesOutput ==
    (Returned /\ inFile.kind = "file" /\ inFile.lines = <<>> /\ Openable)
        => (Printed = <<ErrorMsg("ValueError")>> /\ outFile = entry.out)

\* C2: with a non-empty header, a data row with fewer fields than the header
\* makes the call fail whatever the missing column is named: a diagnostic is
\* printed, no success message, and no tuple is built for that row.
C2_ShortRowFails ==
    (Returned /\ HasHeader /\ Openable)
        => \A k \in 1..Len(DataRecords) :
               Len(DataRecords[k]) < Len(Header)
                   => /\ Len(Printed) = 1
                      /\ Printed[1].kind = "Error"
                      /\ Len(rows) < k

\* C3: with a nonexistent input path the output path is never opened and
\* keeps its state, and the call (direct or through the entry point) prints
\* one file-not-found message naming the input path.
C3_MissingInput ==
    inFile.kind = "absent"
        => /\ "sql_file" \notin open
           /\ outFile = entry.out
           /\ Returned => /\ Len(Printed) = 1
                          /\ Printed[1].kind \in {"FileNotFound", "InputNotFound"}
                          /\ Printed[1].arg = csv_file_path

C3_Witness ==
    /\ Returned /\ inFile.kind = "absent" /\ Printed = <<FileNotFoundMsg>>
    /\ outFile.kind = "file" /\ outFile.text = OldText

\* C4: when the input opens but the output path cannot be opened, the generic
\* error message is printed; the file-not-found message is printed only when
\* the input path itself is missing or cannot be opened.
C4_OutputFailureIsGeneric ==
    Returned
        => /\ (inFile.kind = "file" /\ ~Openable)
                  => (Len(Printed) = 1 /\ Printed[1].kind = "Error")
           /\ (\E i \in 1..Len(Printed) : Printed[i] = FileNotFoundMsg)
                  => inFile.kind # "file"

\* C5: for a well-formed input (non-empty header, every data line with as
\* many fields as the header) the written statement holds as many
\* parenthesized tuples as the input has data lines.
C5_TupleCount ==
    (Succeeded /\ WellFormed) => TupleCount(outFile.text) = Len(inFile.lines) - 1

C5_Witness ==
    /\ Succeeded /\ WellFormed /\ Len(inFile.lines) = 3 /\ Len(Header) = 2
    /\ TupleCount(outFile.text) = 2

\* the value a row holds under the name of header column i: the field at the
\* last header position carrying that name, None past the end of the row
Held(h, rec, i) ==
    LET same == {j \in 1..Len(h) : h[j] = h[i]}
        last == CHOOSE j \in same : \A k \in same : k <= j
    IN IF last <= Len(rec) THEN Some(rec[last]) ELSE None

\* C6 as amended: after a successful conversion the column list is the header
\* in header order, there is one tuple per data record in input order, each
\* with one value per header column, and the i-th value is the formatted
\* value the row holds under the i-th column's name (its i-th field when the
\* names are distinct, the last field under the name when it is repeated,
\* the text None for a status or rate column past the end of the row).
C6_HeaderOrder ==
    Succeeded
        => /\ OutColumns(outFile.text) = Header
           /\ Len(OutTuples(outFile.text)) = Len(DataRecords)
           /\ \A k \in 1..Len(DataRecords) :
                  LET vals == TupleValues(OutTuples(outFile.text)[k])
                  IN /\ Len(vals) = Len(Header)
                     /\ \A i \in 1..Len(Header) :
                            vals[i] = FormatValue(Header[i], Held(Header, DataRecords[k], i)).s

C6_Witness ==
    /\ Succeeded /\ Len(DataRecords) = 2
    /\ Header = << <<"a">>, <<"status">> >>
    /\ DataRecords[1] = << <<"a", "'">>, <<>> >>
    /\ DataRecords[2] = << <<>>, <<"a", "'">> >>

\* C6 as stated: the i-th value of every tuple is the formatted i-th field
\* of the corresponding data row.
C6_Positional ==
    Succeeded
        => /\ OutColumns(outFile.text) = Header
           /\ Len(OutTuples(outFile.text)) = Len(DataRecords)
           /\ \A k \in 1..Len(DataRecords) :
                  LET vals == TupleValues(OutTuples(outFile.text)[k])
                  IN /\ Len(vals) = Len(Header)
                     /\ \A i \in 1..Len(Header) :
                            i <= Len(DataRecords[k])
                                => vals[i] = FormatValue(Header[i], Some(DataRecords[k][i])).s

\* C7: the value emitted for column c and raw value v is v itself when c is
\* status or rate; otherwise it starts and ends with a quote, what lies
\* between reads back as v when each doubled quote is undoubled, and it
\* holds 2 * (quotes of v) + 2 quotes.
C7_Formatting ==
    \A k \in 1..Len(rows) :
        LET rec == DataRecords[k]
            vals == TupleValues(rows[k])
        IN /\ Len(vals) = Len(columns)
           /\ \A i \in 1..Len(columns) :
                  i <= Len(rec) =>
                      LET v == rec[i]
                          e == vals[i]
                      IN IF columns[i] \in {<<"status">>, <<"rate">>}
                         THEN e = v
                         ELSE /\ Len(e) >= 2
                              /\ e[1] = "'" /\ e[Len(e)] = "'"
                              /\ Undouble(SubSeq(e, 2, Len(e) - 1)) = v
                              /\ CountQ(e) = 2 * CountQ(v) + 2

C7_Witness ==
    /\ Len(rows) = 1
    /\ columns = << <<"a">>, <<"rate">> >>
    /\ DataRecords[1] = << <<"'", "a", "'">>, <<"'">> >>
    /\ rows[1] = <<"(", "'", "'", "'", "a", "'", "'", "'", ", ", "'", ")">>

\* C8: a call that raised prints exactly one diagnostic and no success
\* message, every exception reaching the handlers is handled there, and the
\* success message is printed only with the complete statement in the
\* output file and both files closed.
C8_FailureReported ==
    /\ Returned => Len(Printed) = 1
    /\ (Returned /\ exc # "None")
           => Printed[1].kind \in {"FileNotFound", "Error"}
    /\ pc = "except" => ENABLED (ExceptFileNotFound \/ ExceptException)
    /\ (\E i \in 1..Len(Printed) : Printed[i] = Success)
           => /\ exc = "None"
              /\ open = {}
              /\ outFile.kind = "file"
              /\ Complete(outFile.text)

C8_Witness ==
    /\ Returned /\ exc = "OSError" /\ Printed = <<ErrorMsg("OSError")>>
    /\ Len(rows) = 2

\* C9: when no write failed, the output file after a second call with the
\* same arguments is what it was after the first, and a successful call
\* leaves nothing of what the file held before.
C9_Idempotent ==
    /\ (Returned /\ runs >= 2 /\ \A i \in 1..Len(console) : console[i] # ErrorMsg("OSError"))
           => outFile = entry.out
    /\ Succeeded => \A i \in 1..Len(outFile.text) : outFile.text[i] \notin {OldText[1]}

C9_Witness ==
    /\ Returned /\ runs = 2 /\ console = <<Success, Success>>
    /\ Len(rows) = 1 /\ outFile = entry.out /\ Complete(outFile.text)

\* C10: both handles are open whenever the header or a row is processed,
\* and no handle is open once the with block has been left, on any path.
C10_HandlesScoped ==
    /\ pc \in {"header", "rows", "exit"} => open = {"csv_file", "sql_file"}
    /\ pc = "open_out" => open = {"csv_file"}
    /\ pc \in {"idle", "print", "except"} => open = {}

C10_Witness ==
    /\ Returned /\ exc = "FileNotFoundError" /\ inFile.kind = "file"
    /\ open = {}
====
